---- MODULE Spec2Model ----
(***************************************************************************)
(* Lazy composition of And-Inverter Graphs (aiger/lazy.py).                *)
(*                                                                         *)
(* Nodes are tuples whose first element is the node class:                 *)
(*   <<"F">>            ConstFalse                                          *)
(*   <<"I", name>>      Input(name)                                        *)
(*   <<"L", name>>      LatchIn(name)                                      *)
(*   <<"N", x>>         Inverter(input = x)                                *)
(*   <<"A", l, r>>      AndGate(left = l, right = r)                       *)
(*   <<"S", new, old>>  Shim(new, old)                                     *)
(* A circuit is a record with the attributes of LazyAIG.  Its iter_nodes   *)
(* closure is represented by the values the closure captures:              *)
(*   <<"leaf", batches>>                        an eager __iter_nodes__    *)
(*   <<"seq", self, other, interface, node_map>>  closure of __rshift__    *)
(*   <<"par", self, other>>                     closure of __or__          *)
(*   <<"lat", relabels, self>>                  closure of __getitem__     *)
(***************************************************************************)
EXTENDS Integers, Sequences, FiniteSets, TLC

VARIABLES cur, last, seen, factory, yielded, nops

vars == <<cur, last, seen, factory, yielded, nops>>

\* Number of composition / relabeling calls in one run.
MaxOps == 2

\* Number of times one node-batch factory is invoked in one run.
MaxInvocations == 2

------------------------------------------------------------------------------
\* Node constructors and class tests.

ConstFalse == <<"F">>

Input(n) == <<"I", n>>

LatchIn(n) == <<"L", n>>

Inverter(x) == <<"N", x>>

AndGate(l, r) == <<"A", l, r>>

Shim(new, old) == <<"S", new, old>>

Kind(node) == node[1]

IsInput(node) == Kind(node) = "I"

IsLatchIn(node) == Kind(node) = "L"

IsConstTrue(node) == Kind(node) = "N" /\ node[2] = ConstFalse

------------------------------------------------------------------------------
\* Mapping helpers (dicts and pmaps are functions with a finite domain).

EmptyMap == [k \in {} |-> TRUE]

\* pmap `a + b`: the entries of b win.
PlusMap(a, b) == [k \in DOMAIN a \cup DOMAIN b |-> IF k \in DOMAIN b THEN b[k] ELSE a[k]]

\* fn.omit(mapping, keys)
Omit(m, keys) == [k \in DOMAIN m \ keys |-> m[k]]

\* fn.project(mapping, keys)
Project(m, keys) == [k \in DOMAIN m \cap keys |-> m[k]]

\* relabels.get(k, k)
Relabel(relabels, k) == IF k \in DOMAIN relabels THEN relabels[k] ELSE k

\* walk_keys(relabel, mapping): a dict built from the items of the mapping in
\* its iteration order; when two keys are sent to the same name the later item
\* wins, and the iteration order of a pmap is not determined by the program.
WalkKeysResults(relabels, m) ==
    LET newKeys == {Relabel(relabels, k) : k \in DOMAIN m}
        Pre(nk) == {k \in DOMAIN m : Relabel(relabels, k) = nk}
        Sources == {s \in [newKeys -> DOMAIN m] : \A nk \in newKeys : s[nk] \in Pre(nk)}
    IN  {[nk \in newKeys |-> m[s[nk]]] : s \in Sources}

\* fn.lcat
Cat(batches) ==
    LET c[i \in 0..Len(batches)] == IF i = 0 THEN <<>> ELSE c[i - 1] \o batches[i]
    IN  c[Len(batches)]

------------------------------------------------------------------------------
\* NodeAlgebra: And / Not with constant folding.

\* A faulty __and__: a constant-true operand is returned instead of the other.
AlgAndTrueAbsorbs(a, b) ==
    IF a = ConstFalse THEN a
    ELSE IF b = ConstFalse THEN b
    ELSE IF IsConstTrue(a) THEN a
    ELSE IF IsConstTrue(b) THEN b
    ELSE AndGate(a, b)

AlgAnd(a, b) ==
    IF a = ConstFalse THEN a
    ELSE IF b = ConstFalse THEN b
    ELSE IF IsConstTrue(a) THEN b
    ELSE IF IsConstTrue(b) THEN a
    ELSE AndGate(a, b)

AlgNot(a) == IF Kind(a) = "N" THEN a[2] ELSE Inverter(a)

------------------------------------------------------------------------------
\* The node-batch factories (the iter_nodes closures).

\* A faulty add_shims: new and old exchanged.
AddShimsReversed(node_batch, interface, node_map) ==
    [i \in 1..Len(node_batch) |->
        IF IsInput(node_batch[i]) /\ node_batch[i][2] \in interface
        THEN Shim(node_map[node_batch[i][2]], node_batch[i])
        ELSE node_batch[i]]

\* __rshift__.iter_nodes.add_shims, on one batch.
AddShims(node_batch, interface, node_map) ==
    [i \in 1..Len(node_batch) |->
        IF IsInput(node_batch[i]) /\ node_batch[i][2] \in interface
        THEN Shim(node_batch[i], node_map[node_batch[i][2]])
        ELSE node_batch[i]]

\* A faulty iter_nodes: `seen` outlives the invocation.
StaleSeen(prior) == prior

\* `seen = set()` at the start of every invocation of __or__.iter_nodes;
\* prior is what the previous invocation left in its own `seen`.
NewSeen(prior) == {}

\* __or__.iter_nodes.filter_seen, on one batch, from the given `seen`.
\* Yields the batch and the `seen` it leaves for the next batch.
FilterSeen(node_batch, seen0) ==
    LET f[i \in 0..Len(node_batch)] ==
            IF i = 0 THEN [out |-> <<>>, seen |-> seen0]
            ELSE LET p == f[i - 1]
                     node == node_batch[i]
                 IN  IF node \in p.seen THEN p
                     ELSE [out |-> Append(p.out, node),
                           seen |-> IF IsInput(node) THEN p.seen \cup {node} ELSE p.seen]
    IN  f[Len(node_batch)]

\* map(filter_seen, batches) consumed in order: `seen` is shared by the batches.
FilterBatches(batches, seen0) ==
    LET f[i \in 0..Len(batches)] ==
            IF i = 0 THEN [out |-> <<>>, seen |-> seen0]
            ELSE LET p == f[i - 1]
                     b == FilterSeen(batches[i], p.seen)
                 IN  [out |-> Append(p.out, b.out), seen |-> b.seen]
    IN  f[Len(batches)]

\* __getitem__.iter_nodes.rename_latches, on one batch.
RenameLatches(node_batch, relabels) ==
    LET One(node) ==
            IF IsLatchIn(node) /\ node[2] \in DOMAIN relabels
            THEN <<LatchIn(Relabel(relabels, node[2])),
                   Shim(node, LatchIn(Relabel(relabels, node[2])))>>
            ELSE <<node>>
    IN  Cat([i \in 1..Len(node_batch) |-> One(node_batch[i])])

\* fn.chain(self.__iter_nodes__(), other.__iter_nodes__()) and `yield from` in order.
Chain(first, second) == first \o second

RECURSIVE IterNodes(_, _)
\* Invoke the factory t.  Gives the batches it yields and the union of the
\* `seen` sets its __or__ closures end with.
IterNodes(t, prior) ==
    CASE t[1] = "leaf" -> [stream |-> t[2], seen |-> {}]
      [] t[1] = "seq" ->
            LET a == IterNodes(t[2], prior)
                b == IterNodes(t[3], prior)
            IN  [stream |-> Chain(a.stream,
                                  [i \in 1..Len(b.stream) |-> AddShims(b.stream[i], t[4], t[5])]),
                 seen |-> a.seen \cup b.seen]
      [] t[1] = "par" ->
            LET a == IterNodes(t[2], prior)
                b == IterNodes(t[3], prior)
                f == FilterBatches(Chain(a.stream, b.stream), NewSeen(prior))
            IN  [stream |-> f.out, seen |-> f.seen \cup a.seen \cup b.seen]
      [] t[1] = "lat" ->
            LET a == IterNodes(t[3], prior)
            IN  [stream |-> [i \in 1..Len(a.stream) |-> RenameLatches(a.stream[i], t[2])],
                 seen |-> a.seen]

\* circ.__iter_nodes__() as the program would run it now.
Stream(circ) == IterNodes(circ.iter_nodes, seen).stream

------------------------------------------------------------------------------
\* Evaluation (AIG.__call__, shared by LazyAIG): one forward pass over the
\* batches; a Shim makes its `new` node stand for the value of its `old` node.

Put(mem, k, v) == [n \in DOMAIN mem \cup {k} |-> IF n = k THEN v ELSE mem[n]]

OpAnd(sym, a, b) == IF sym THEN AlgAnd(a, b) ELSE a /\ b

OpNot(sym, a) == IF sym THEN AlgNot(a) ELSE ~a

EvalGate(st, gate, inputs, latchins, false, sym) ==
    LET mem == st.mem
        Fail == [mem |-> mem, ok |-> FALSE]
        Set(k, v) == [mem |-> Put(mem, k, v), ok |-> st.ok]
    IN  CASE Kind(gate) = "N" ->
                IF gate[2] \in DOMAIN mem THEN Set(gate, OpNot(sym, mem[gate[2]])) ELSE Fail
          [] Kind(gate) = "A" ->
                IF gate[2] \in DOMAIN mem /\ gate[3] \in DOMAIN mem
                THEN Set(gate, OpAnd(sym, mem[gate[2]], mem[gate[3]])) ELSE Fail
          [] Kind(gate) = "I" ->
                IF gate[2] \in DOMAIN inputs THEN Set(gate, inputs[gate[2]]) ELSE Fail
          [] Kind(gate) = "L" ->
                IF gate[2] \in DOMAIN latchins THEN Set(gate, latchins[gate[2]]) ELSE Fail
          [] Kind(gate) = "S" ->
                IF gate[3] \in DOMAIN mem THEN Set(gate[2], mem[gate[3]]) ELSE Fail
          [] Kind(gate) = "F" -> Set(gate, false)

\* self(inputs, latches=latches, false=false): the output assignment and the
\* next latch state; ok is FALSE when a lookup fails (KeyError).
Call(circ, inputs, latches, false, sym) ==
    LET latchins == Project(PlusMap(circ.latch2init, latches), DOMAIN circ.latch_map)
        items == Cat(Stream(circ))
        run[i \in 0..Len(items)] ==
            IF i = 0 THEN [mem |-> EmptyMap, ok |-> TRUE]
            ELSE IF ~run[i - 1].ok THEN run[i - 1]
            ELSE EvalGate(run[i - 1], items[i], inputs, latchins, false, sym)
        fin == run[Len(items)]
        Get(node) == fin.mem[node]
        have == fin.ok
                /\ (\A k \in DOMAIN circ.node_map : circ.node_map[k] \in DOMAIN fin.mem)
                /\ (\A l \in DOMAIN circ.latch_map : circ.latch_map[l] \in DOMAIN fin.mem)
    IN  IF have
        THEN [ok |-> TRUE,
              outs |-> [k \in DOMAIN circ.node_map |-> Get(circ.node_map[k])],
              louts |-> [k \in DOMAIN circ.latch_map |-> Get(circ.latch_map[k])]]
        ELSE [ok |-> FALSE, outs |-> EmptyMap, louts |-> EmptyMap]

\* circ(inputs): concrete evaluation from the declared initial latch values.
Eval(circ, inputs) == Call(circ, inputs, EmptyMap, FALSE, FALSE)

------------------------------------------------------------------------------
\* Circuits.

Outputs(circ) == DOMAIN circ.node_map

Latches(circ) == DOMAIN circ.latch_map

NameOrder == <<"x", "y", "z", "w">>

\* The names of a set, listed in one fixed order.
Listed(S) == SelectSeq(NameOrder, LAMBDA n : n \in S)

RECURSIVE Height(_)
Height(node) ==
    CASE Kind(node) = "N" -> 1 + Height(node[2])
      [] Kind(node) = "A" ->
            1 + (IF Height(node[2]) > Height(node[3]) THEN Height(node[2]) ELSE Height(node[3]))
      [] OTHER -> 0

RECURSIVE Cone(_)
Cone(node) ==
    CASE Kind(node) = "N" -> {node} \cup Cone(node[2])
      [] Kind(node) = "A" -> {node} \cup Cone(node[2]) \cup Cone(node[3])
      [] OTHER -> {node}

RECURSIVE SetToSeq(_)
SetToSeq(S) == IF S = {} THEN <<>> ELSE LET e == CHOOSE e \in S : TRUE IN <<e>> \o SetToSeq(S \ {e})

\* AIG.__iter_nodes__ of an eager circuit: the nodes its outputs and latches
\* depend on, batched by depth.
EagerBatches(node_map, latch_map) ==
    LET roots == {node_map[k] : k \in DOMAIN node_map} \cup {latch_map[k] : k \in DOMAIN latch_map}
        nodes == UNION {Cone(r) : r \in roots}
        top == IF nodes = {} THEN 0
               ELSE CHOOSE h \in 0..Cardinality(nodes) :
                        /\ \E n \in nodes : Height(n) = h
                        /\ \A n \in nodes : Height(n) <= h
        all == [h \in 1..(top + 1) |-> SetToSeq({n \in nodes : Height(n) = h - 1})]
    IN  SelectSeq(all, LAMBDA b : b /= <<>>)

\* aiger.tee(iomap) for iomap = {new: [old]}: every old name is an output that
\* reads the input named new.
Tee(relabels) ==
    LET news == {relabels[k] : k \in DOMAIN relabels}
    IN  [inputs |-> news,
         latch2init |-> EmptyMap,
         node_map |-> [k \in DOMAIN relabels |-> Input(relabels[k])],
         latch_map |-> EmptyMap,
         comments |-> <<>>,
         iter_nodes |-> <<"leaf", <<[i \in 1..Len(Listed(news)) |-> Input(Listed(news)[i])]>> >>]

\* lazy(circ)
Lazy(circ) ==
    [inputs |-> circ.inputs,
     latch_map |-> circ.latch_map,
     node_map |-> circ.node_map,
     latch2init |-> circ.latch2init,
     iter_nodes |-> circ.iter_nodes,
     comments |-> circ.comments]

\* interface = self.outputs & other.inputs
Interface(self, other) == Outputs(self) \cap other.inputs

\* A faulty passthrough: the interface outputs are not omitted.
PassthroughKeepsAll(self, interface) == self.node_map

\* passthrough = fn.omit(dict(self.node_map), interface)
Passthrough(self, interface) == Omit(self.node_map, interface)

\* The two assertions of __rshift__.
RshiftAsserts(self, other) ==
    /\ (Outputs(self) \ Interface(self, other)) \cap Outputs(other) = {}
    /\ Latches(self) \cap Latches(other) = {}

\* self >> other, when the assertions pass.
Rshift(self, other) ==
    LET interface == Interface(self, other)
    IN  [inputs |-> self.inputs \cup (other.inputs \ interface),
         latch_map |-> PlusMap(self.latch_map, other.latch_map),
         latch2init |-> PlusMap(self.latch2init, other.latch2init),
         node_map |-> PlusMap(other.node_map, Passthrough(self, interface)),
         iter_nodes |-> <<"seq", self.iter_nodes, other.iter_nodes, interface, self.node_map>>,
         comments |-> self.comments \o other.comments]

\* The two assertions of __or__.
OrAsserts(self, other) ==
    /\ Latches(self) \cap Latches(other) = {}
    /\ Outputs(self) \cap Outputs(other) = {}

\* self | other, when the assertions pass.
Or(self, other) ==
    [inputs |-> self.inputs \cup other.inputs,
     latch_map |-> PlusMap(self.latch_map, other.latch_map),
     latch2init |-> PlusMap(self.latch2init, other.latch2init),
     node_map |-> PlusMap(self.node_map, other.node_map),
     iter_nodes |-> <<"par", self.iter_nodes, other.iter_nodes>>,
     comments |-> self.comments \o other.comments]

\* relabels_ = {v: [k] for k, v in relabels.items()}, for an injective relabels:
\* the adaptor lazy(A.tee(relabels_)) of an input relabeling.
Adaptor(relabels) == Lazy(Tee(relabels))

\* self['o', relabels] with the dict that walk_keys built.
GetItemOutput(self, node_map) == [self EXCEPT !.node_map = node_map]

\* self['l', relabels] with the dicts that walk_keys built.
GetItemLatch(self, relabels, latch_map, latch2init) ==
    [self EXCEPT !.latch_map = latch_map,
                 !.latch2init = latch2init,
                 !.iter_nodes = <<"lat", relabels, self.iter_nodes>>]

\* LazyAIG.aig: evaluate over NodeAlgebra values and wrap the result as an AIG.
Aig(self) ==
    LET false == ConstFalse
        inputs == [i \in self.inputs |-> Input(i)]
        latches == [l \in DOMAIN self.latch2init |->
                        IF self.latch2init[l] THEN AlgNot(false) ELSE false]
        r == Call(self, inputs, latches, false, TRUE)
    IN  [ok |-> r.ok,
         circ |-> [inputs |-> self.inputs,
                   node_map |-> r.outs,
                   latch_map |-> r.louts,
                   latch2init |-> self.latch2init,
                   comments |-> self.comments,
                   iter_nodes |-> <<"leaf", EagerBatches(r.outs, r.louts)>>]]

------------------------------------------------------------------------------
\* The eager circuits that are lifted: every one lists its nodes in a valid
\* topological order and keeps its input names apart from its latch names.

\* (x & y).with_output('z')
AndXY ==
    [inputs |-> {"x", "y"},
     latch2init |-> EmptyMap,
     node_map |-> [k \in {"z"} |-> AndGate(Input("x"), Input("y"))],
     latch_map |-> EmptyMap,
     comments |-> <<"and">>,
     iter_nodes |-> <<"leaf", << <<Input("x"), Input("y")>>,
                                 <<AndGate(Input("x"), Input("y"))>> >> >>]

\* The identity on z, read under the output name w.
IdZ ==
    [inputs |-> {"z"},
     latch2init |-> EmptyMap,
     node_map |-> [k \in {"w"} |-> Input("z")],
     latch_map |-> EmptyMap,
     comments |-> <<"id">>,
     iter_nodes |-> <<"leaf", << <<Input("z")>> >> >>]

\* aiger.source({'x': True})
SourceX ==
    [inputs |-> {},
     latch2init |-> EmptyMap,
     node_map |-> [k \in {"x"} |-> Inverter(ConstFalse)],
     latch_map |-> EmptyMap,
     comments |-> <<"src">>,
     iter_nodes |-> <<"leaf", << <<ConstFalse>>, <<Inverter(ConstFalse)>> >> >>]

\* (x & y) with output z, after x has been looped back from z through the
\* latch x (initially true): one latch, input y, output z.
Looped ==
    [inputs |-> {"y"},
     latch2init |-> [k \in {"x"} |-> TRUE],
     node_map |-> [k \in {"z"} |-> AndGate(LatchIn("x"), Input("y"))],
     latch_map |-> [k \in {"x"} |-> AndGate(LatchIn("x"), Input("y"))],
     comments |-> <<"loop">>,
     iter_nodes |-> <<"leaf", << <<LatchIn("x"), Input("y")>>,
                                 <<AndGate(LatchIn("x"), Input("y"))>> >> >>]

\* A delay of x through the latch y (initially false), read negated under w.
DelayX ==
    [inputs |-> {"x"},
     latch2init |-> [k \in {"y"} |-> FALSE],
     node_map |-> [k \in {"w"} |-> Inverter(LatchIn("y"))],
     latch_map |-> [k \in {"y"} |-> Input("x")],
     comments |-> <<"delay">>,
     iter_nodes |-> <<"leaf", << <<Input("x"), LatchIn("y")>>,
                                 <<Inverter(LatchIn("y"))>> >> >>]

\* A two-stage shift register: w enters the latch x (initially true), x moves
\* on to the latch y (initially false), and z reads x & ~y.
ShiftXY ==
    [inputs |-> {"w"},
     latch2init |-> [k \in {"x", "y"} |-> k = "x"],
     node_map |-> [k \in {"z"} |-> AndGate(LatchIn("x"), Inverter(LatchIn("y")))],
     latch_map |-> [k \in {"x", "y"} |-> IF k = "x" THEN Input("w") ELSE LatchIn("x")],
     comments |-> <<"shift">>,
     iter_nodes |-> <<"leaf", << <<Input("w"), LatchIn("x"), LatchIn("y")>>,
                                 <<Inverter(LatchIn("y"))>>,
                                 <<AndGate(LatchIn("x"), Inverter(LatchIn("y")))>> >> >>]

Eager == {AndXY, IdZ, SourceX, Looped, DelayX, ShiftXY}

\* Relabelings: one name to another, or two names swapped.
Relabelings ==
    {[k \in {"z"} |-> "w"],
     [k \in {"y"} |-> "x"],
     [k \in {"x", "y"} |-> IF k = "x" THEN "y" ELSE "x"]}

NoCirc ==
    [inputs |-> {}, latch2init |-> EmptyMap, node_map |-> EmptyMap, latch_map |-> EmptyMap,
     comments |-> <<>>, iter_nodes |-> <<"leaf", <<>> >>]

\* What the last call was: its receiver and argument as __rshift__ / __or__ /
\* __getitem__ saw them (A is self, B is other), whether it returned (ok) and
\* what it returned (res), or the exception it raised (err).
Called(op, A, B, kind, rel, ok, err, res) ==
    [op |-> op, A |-> A, B |-> B, kind |-> kind, rel |-> rel, ok |-> ok, err |-> err,
     res |-> res]

------------------------------------------------------------------------------
\* The state: cur is the circuit being built, last the last call, seen the
\* `seen` sets the last recorded invocation of a factory ended with, factory
\* the iter_nodes whose invocations are recorded in yielded.

Init ==
    /\ \E e \in Eager :
          /\ cur = Lazy(e)
          /\ last = Called("lazy", e, NoCirc, "", EmptyMap, TRUE, "", Lazy(e))
    /\ seen = {}
    /\ factory = <<>>
    /\ yielded = <<>>
    /\ nops = 0

\* An exception is not caught: the calls of a run end with the first that raises.
Running == last.ok

\* The outcome of a composition: the new circuit, or an AssertionError and no
\* circuit.
Compose(op, A, B, kind, rel, asserts, result) ==
    /\ Running
    /\ nops < MaxOps
    /\ nops' = nops + 1
    /\ IF asserts
       THEN /\ cur' = result
            /\ last' = Called(op, A, B, kind, rel, TRUE, "", result)
       ELSE /\ cur' = cur
            /\ last' = Called(op, A, B, kind, rel, FALSE, "AssertionError", NoCirc)
    /\ UNCHANGED <<seen, factory, yielded>>

\* cur >> other
RshiftCall ==
    \E e \in Eager :
        Compose("rshift", cur, Lazy(e), "", EmptyMap,
                RshiftAsserts(cur, Lazy(e)), Rshift(cur, Lazy(e)))

\* cur << other, which is lazy(other) >> cur
LshiftCall ==
    \E e \in Eager :
        Compose("lshift", Lazy(e), Lazy(cur), "", EmptyMap,
                RshiftAsserts(Lazy(e), Lazy(cur)), Rshift(Lazy(e), Lazy(cur)))

\* cur | other
OrCall ==
    \E e \in Eager :
        Compose("or", cur, Lazy(e), "", EmptyMap, OrAsserts(cur, Lazy(e)), Or(cur, Lazy(e)))

\* cur['i', relabels], which is lazy(A.tee(relabels_)) >> cur
GetItemInputCall ==
    \E rel \in Relabelings :
        Compose("getitem", Adaptor(rel), Lazy(cur), "i", rel,
                RshiftAsserts(Adaptor(rel), Lazy(cur)), Rshift(Adaptor(rel), Lazy(cur)))

\* cur['o', relabels]
GetItemOutputCall ==
    \E rel \in Relabelings :
        \E node_map \in WalkKeysResults(rel, cur.node_map) :
            Compose("getitem", cur, NoCirc, "o", rel, TRUE, GetItemOutput(cur, node_map))

\* cur['l', relabels]
GetItemLatchCall ==
    \E rel \in Relabelings :
        \E latch_map \in WalkKeysResults(rel, cur.latch_map) :
            \E latch2init \in WalkKeysResults(rel, cur.latch2init) :
                Compose("getitem", cur, NoCirc, "l", rel, TRUE,
                        GetItemLatch(cur, rel, latch_map, latch2init))

\* cur.aig
AigCall ==
    /\ Running
    /\ last.op /= "aig"
    /\ last' = Called("aig", cur, NoCirc, "", EmptyMap, Aig(cur).ok,
                      IF Aig(cur).ok THEN "" ELSE "KeyError",
                      IF Aig(cur).ok THEN Aig(cur).circ ELSE NoCirc)
    /\ UNCHANGED <<cur, seen, factory, yielded, nops>>

\* Invoke a node-batch factory: that of cur the first time, the same one again
\* afterwards, whatever has been built from the circuit since.
Invoke ==
    /\ Running
    /\ Len(yielded) < MaxInvocations
    /\ LET f == IF factory = <<>> THEN cur.iter_nodes ELSE factory[1]
           r == IterNodes(f, seen)
       IN  /\ factory' = <<f>>
           /\ yielded' = Append(yielded, r.stream)
           /\ seen' = r.seen
    /\ UNCHANGED <<cur, last, nops>>

\* cur.unroll(2), cur.unroll(2, only_last_outputs=True), cur.loopback(...),
\* cur.cutlatches(): each raises NotImplementedError.
LatchTransformCall ==
    /\ Running
    /\ \E op \in {"unroll", "loopback", "cutlatches"} :
          \E only_last_outputs \in (IF op = "unroll" THEN BOOLEAN ELSE {FALSE}) :
              last' = Called(op, cur, NoCirc, IF only_last_outputs THEN "last" ELSE "",
                             EmptyMap, FALSE, "NotImplementedError", NoCirc)
    /\ UNCHANGED <<cur, seen, factory, yielded, nops>>

Next ==
    \/ RshiftCall
    \/ LshiftCall
    \/ OrCall
    \/ GetItemInputCall
    \/ GetItemOutputCall
    \/ GetItemLatchCall
    \/ AigCall
    \/ Invoke
    \/ LatchTransformCall

Spec == Init /\ [][Next]_vars

\* The calls that compose and relabel, without flattening or probing.
NextCompose ==
    \/ RshiftCall
    \/ LshiftCall
    \/ OrCall
    \/ GetItemInputCall
    \/ GetItemOutputCall
    \/ GetItemLatchCall

SpecCompose == Init /\ [][NextCompose]_vars

\* Composition, relabeling and flattening.
NextAig ==
    \/ RshiftCall
    \/ LshiftCall
    \/ OrCall
    \/ GetItemInputCall
    \/ GetItemOutputCall
    \/ GetItemLatchCall
    \/ AigCall

SpecAig == Init /\ [][NextAig]_vars

\* Composition, relabeling and invocations of a node-batch factory.
NextInvoke ==
    \/ RshiftCall
    \/ LshiftCall
    \/ OrCall
    \/ GetItemInputCall
    \/ GetItemOutputCall
    \/ GetItemLatchCall
    \/ Invoke

SpecInvoke == Init /\ [][NextInvoke]_vars

------------------------------------------------------------------------------
\* Properties.

\* The last call went through __rshift__: A >> B.
IsSeq == last.op \in {"rshift", "lshift"} \/ (last.op = "getitem" /\ last.kind = "i")

Assignments(names) == [names -> BOOLEAN]

\* C1: when A >> B returns, with interface = A.outputs \cap B.inputs, the result
\* has inputs A.inputs \cup (B.inputs - interface), outputs B.outputs \cup
\* (A.outputs - interface), every passthrough output on the node it had in A,
\* every output of B on the node it had in B, and the latches and latch
\* initial values of A and of B together.
SeqComposeShape ==
    (IsSeq /\ last.ok) =>
        LET A == last.A
            B == last.B
            interface == Outputs(A) \cap B.inputs
        IN  /\ cur.inputs = A.inputs \cup (B.inputs \ interface)
            /\ Outputs(cur) = Outputs(B) \cup (Outputs(A) \ interface)
            /\ \A k \in Outputs(A) \ interface : cur.node_map[k] = A.node_map[k]
            /\ \A k \in Outputs(B) : cur.node_map[k] = B.node_map[k]
            /\ Latches(cur) = Latches(A) \cup Latches(B)
            /\ \A l \in Latches(A) : cur.latch_map[l] = A.latch_map[l]
            /\ \A l \in Latches(B) : cur.latch_map[l] = B.latch_map[l]
            /\ DOMAIN cur.latch2init = DOMAIN A.latch2init \cup DOMAIN B.latch2init
            /\ \A l \in DOMAIN A.latch2init : cur.latch2init[l] = A.latch2init[l]
            /\ \A l \in DOMAIN B.latch2init : cur.latch2init[l] = B.latch2init[l]

\* A sequential composition with a non-empty interface, a passthrough output
\* and a latch has returned.
SeqComposeShapeWitness ==
    /\ last.op \in {"rshift", "lshift"}
    /\ last.ok
    /\ Outputs(last.A) \cap last.B.inputs /= {}
    /\ Outputs(last.A) \ last.B.inputs /= {}
    /\ Latches(cur) /= {}

\* C2: when A >> B returns, for every input assignment the result gives every
\* output of B the value B computes with its interface inputs bound to what A
\* computes for the same names and its other inputs bound to the assignment,
\* and every passthrough output the value A computes.
SeqComposeValues ==
    (IsSeq /\ last.ok) =>
        LET A == last.A
            B == last.B
            interface == Outputs(A) \cap B.inputs
        IN  \A inp \in Assignments(cur.inputs) :
                LET ra == Eval(A, inp)
                    rb == Eval(B, [n \in B.inputs |-> IF n \in interface THEN ra.outs[n]
                                                                        ELSE inp[n]])
                    r == Eval(cur, inp)
                IN  (ra.ok /\ rb.ok) =>
                        /\ r.ok
                        /\ \A k \in Outputs(B) : r.outs[k] = rb.outs[k]
                        /\ \A k \in Outputs(A) \ interface : r.outs[k] = ra.outs[k]

\* The call would put two latches under one name, or two outputs under one
\* name outside the sequential interface.
WouldCollide ==
    LET A == last.A
        B == last.B
        Merged(names) == \E k1, k2 \in names :
                            k1 /= k2 /\ Relabel(last.rel, k1) = Relabel(last.rel, k2)
    IN  \/ IsSeq /\ \/ (Outputs(A) \ B.inputs) \cap Outputs(B) /= {}
                    \/ Latches(A) \cap Latches(B) /= {}
        \/ last.op = "or" /\ \/ Outputs(A) \cap Outputs(B) /= {}
                             \/ Latches(A) \cap Latches(B) /= {}
        \/ last.op = "getitem" /\ last.kind = "o" /\ Merged(Outputs(A))
        \/ last.op = "getitem" /\ last.kind = "l" /\ Merged(Latches(A))

\* C3: a call of >>, | or a relabeling whose result would contain a namespace
\* collision fails at that call and returns no circuit.
CollisionsFail == WouldCollide => ~last.ok

\* C4: flattening a lifted eager circuit C gives a circuit with the input,
\* output and latch names of C that, for every input assignment, evaluates to
\* what C evaluates to.
FlattenRoundTrip ==
    (last.op = "aig" /\ last.A.iter_nodes[1] = "leaf") =>
        /\ last.ok
        /\ last.res.inputs = last.A.inputs
        /\ Outputs(last.res) = Outputs(last.A)
        /\ Latches(last.res) = Latches(last.A)
        /\ \A inp \in Assignments(last.A.inputs) :
              /\ Eval(last.A, inp).ok
              /\ Eval(last.res, inp) = Eval(last.A, inp)

\* A lifted circuit with a latch has been flattened into different nodes.
FlattenRoundTripWitness ==
    /\ last.op = "aig"
    /\ last.A.iter_nodes[1] = "leaf"
    /\ last.ok
    /\ Latches(last.A) /= {}
    /\ last.res.node_map /= last.A.node_map

\* C5: every invocation of one node-batch factory yields the same batches.
FactoryIdempotent == \A i \in DOMAIN yielded : yielded[i] = yielded[1]

\* The factory of a parallel composition that elides an input has been invoked
\* twice, the second time after the circuit was composed further.
FactoryIdempotentWitness ==
    /\ Len(yielded) >= 2
    /\ factory[1][1] = "par"
    /\ seen /= {}
    /\ Len(Cat(yielded[1])) <
           Len(Cat(IterNodes(factory[1][2], {}).stream)) + Len(Cat(IterNodes(factory[1][3], {}).stream))
    /\ cur.iter_nodes /= factory[1]
    /\ cur.iter_nodes[1] \in {"seq", "par"}

\* C6: circuit['o', {z: w}] for an output z has the outputs (outputs - {z})
\* \cup {w}, gives under w the value the circuit gives under z, and keeps the
\* inputs, latches, latch initial values and batches of the circuit.
OutputRelabel ==
    (/\ last.op = "getitem"
     /\ last.kind = "o"
     /\ Cardinality(DOMAIN last.rel) = 1
     /\ DOMAIN last.rel \subseteq Outputs(last.A)) =>
        LET z == CHOOSE k \in DOMAIN last.rel : TRUE
            w == last.rel[z]
        IN  /\ last.ok
            /\ Outputs(cur) = (Outputs(last.A) \ {z}) \cup {w}
            /\ \A inp \in Assignments(cur.inputs) :
                  Eval(cur, inp).ok /\ Eval(cur, inp).outs[w] = Eval(last.A, inp).outs[z]
            /\ cur.inputs = last.A.inputs
            /\ cur.latch_map = last.A.latch_map
            /\ cur.latch2init = last.A.latch2init
            /\ Stream(cur) = Stream(last.A)

\* C7: unroll(2) on the lazy single-latch circuit with input y and output z
\* returns a circuit with inputs y##time_0 and y##time_1, no latches, and
\* outputs z##time_1 and z##time_2, or z##time_2 alone with only_last_outputs.
UnrollShape ==
    (last.op = "unroll" /\ last.A = Lazy(Looped)) =>
        /\ last.ok
        /\ last.res.inputs = {"y##time_0", "y##time_1"}
        /\ Outputs(last.res) = IF last.kind = "last" THEN {"z##time_2"}
                               ELSE {"z##time_1", "z##time_2"}
        /\ Latches(last.res) = {}

\* The ports of the relabeled circuit for the kind of the last relabeling.
RelabeledPorts ==
    CASE last.kind = "i" -> last.B.inputs
      [] last.kind = "o" -> Outputs(last.A)
      [] last.kind = "l" -> Latches(last.A)

\* C8: a relabeling whose mapping names a port the circuit does not have for
\* that kind fails at the call and returns no circuit.
UnknownPortFails ==
    (last.op = "getitem" /\ ~(DOMAIN last.rel \subseteq RelabeledPorts)) => ~last.ok

\* C9: the input names of a circuit are apart from its latch names.
InputsApartFromLatches == cur.inputs \cap Latches(cur) = {}

\* One forward pass over the items: ok while every And, Inverter and Shim finds
\* what it reads among the nodes emitted or defined by a Shim before it.
ForwardPass(items) ==
    LET f[i \in 0..Len(items)] ==
            IF i = 0 THEN [def |-> {}, ok |-> TRUE]
            ELSE LET p == f[i - 1]
                     g == items[i]
                 IN  CASE Kind(g) = "A" ->
                            [def |-> p.def \cup {g},
                             ok |-> p.ok /\ g[2] \in p.def /\ g[3] \in p.def]
                       [] Kind(g) = "N" ->
                            [def |-> p.def \cup {g}, ok |-> p.ok /\ g[2] \in p.def]
                       [] Kind(g) = "S" ->
                            [def |-> p.def \cup {g[2]}, ok |-> p.ok /\ g[3] \in p.def]
                       [] OTHER -> [def |-> p.def \cup {g}, ok |-> p.ok]
    IN  f[Len(items)]

\* In the batches of a parallel composition, every item of its operands'
\* batches, elided or not, has been emitted by then.
ElidedWereEmitted ==
    cur.iter_nodes[1] = "par" =>
        LET chain == Cat(IterNodes(cur.iter_nodes[2], seen).stream)
                         \o Cat(IterNodes(cur.iter_nodes[3], seen).stream)
            out == Cat(Stream(cur))
        IN  \A i \in DOMAIN chain : \E j \in DOMAIN out : j <= i /\ out[j] = chain[i]

\* C10: the batches of every circuit built by lift, >>, | and relabeling are in
\* topological order: the operands of every And, the input of every Inverter
\* and the old node of every Shim are emitted, or defined by a Shim, earlier,
\* and an Input that a parallel composition elides was emitted earlier.
TopologicalOrder == ForwardPass(Cat(Stream(cur))).ok /\ ElidedWereEmitted

\* The batches hold a Shim and come from a parallel composition that elided an
\* input its second operand shares with the first.
TopologicalOrderWitness ==
    /\ cur.iter_nodes[1] = "par"
    /\ \E i \in DOMAIN Cat(Stream(cur)) : Kind(Cat(Stream(cur))[i]) = "S"
    /\ \E i \in DOMAIN Cat(Stream(cur)) : Kind(Cat(Stream(cur))[i]) = "A"
    /\ Len(Cat(Stream(cur))) <
           Len(Cat(IterNodes(cur.iter_nodes[2], {}).stream))
               + Len(Cat(IterNodes(cur.iter_nodes[3], {}).stream))

------------------------------------------------------------------------------
\* Latch relabeling.

\* The mapping sends distinct names of the set to distinct names.
InjectiveOn(rel, names) ==
    \A a, b \in names : Relabel(rel, a) = Relabel(rel, b) => a = b

Renamed(rel, names) == {Relabel(rel, k) : k \in names}

\* The latch state st of the original circuit, supplied under the new names.
RenamedState(rel, names, st) ==
    [n \in Renamed(rel, names) |-> st[CHOOSE k \in names : Relabel(rel, k) = n]]

\* A batch in which every LatchIn with an old name has given way to the
\* LatchIn with the new name and, right after it, the Shim of the old one.
RelabeledBatch(batch, rel) ==
    Cat([i \in DOMAIN batch |->
            IF IsLatchIn(batch[i]) /\ batch[i][2] \in DOMAIN rel
            THEN <<LatchIn(rel[batch[i][2]]),
                   Shim(batch[i], LatchIn(rel[batch[i][2]]))>>
            ELSE <<batch[i]>>])

\* C11: when circuit['l', m] is taken with m injective on the circuit's latches
\* (a swap of two latches included), the result has the latch map and the
\* initial values re-keyed by m, its batches are the circuit's with every
\* old-named LatchIn replaced by the new-named LatchIn and the Shim after it,
\* and under every input assignment and every latch state, supplied under the
\* new names, its outputs and next-state values are those of the circuit.
LatchRelabel ==
    (/\ last.op = "getitem"
     /\ last.kind = "l"
     /\ InjectiveOn(last.rel, Latches(last.A)))
    => /\ last.ok
       /\ Latches(cur) = Renamed(last.rel, Latches(last.A))
       /\ DOMAIN cur.latch2init = Renamed(last.rel, DOMAIN last.A.latch2init)
       /\ \A k \in Latches(last.A) :
             /\ cur.latch_map[Relabel(last.rel, k)] = last.A.latch_map[k]
             /\ cur.latch2init[Relabel(last.rel, k)] = last.A.latch2init[k]
       /\ Len(Stream(cur)) = Len(Stream(last.A))
       /\ \A b \in DOMAIN Stream(last.A) :
             Stream(cur)[b] = RelabeledBatch(Stream(last.A)[b], last.rel)
       /\ \A inputs \in Assignments(last.A.inputs) :
             \A st \in Assignments(Latches(last.A)) :
                 LET old == Call(last.A, inputs, st, FALSE, FALSE)
                     new == Call(cur, inputs,
                                 RenamedState(last.rel, Latches(last.A), st),
                                 FALSE, FALSE)
                 IN  old.ok =>
                       /\ new.ok
                       /\ new.outs = old.outs
                       /\ \A k \in Latches(last.A) :
                             new.louts[Relabel(last.rel, k)] = old.louts[k]

====
